---- MODULE Spec2Model ----
(***************************************************************************)
(* Mind-map editor: the App component (graph state, bounded undo history   *)
(* with a debounce lock, autosave into localStorage['mindmaps']) and the   *)
(* descendant walks used by delete and collapse.                           *)
(*                                                                         *)
(* One action per event handler.  A handler runs to completion (single     *)
(* threaded event loop); the only asynchronous element is the 100ms timer  *)
(* that releases the history lock, modelled by the action TimerFire.       *)
(*                                                                         *)
(* State updaters queued by a handler (setHistory(prev => ...), setNodes)   *)
(* are applied before the next event is handled, also when the handler     *)
(* ends in an exception; the autosave effect runs with them.  isSavingRef  *)
(* is a ref: it changes at once, inside the handler.                       *)
(*                                                                         *)
(* Abstractions: labels are small naturals standing for label strings;     *)
(* uuidv4() is a counter (never repeats); fields ReactFlow adds to a node  *)
(* (width, height, ...) and node dragging are left out.                    *)
(***************************************************************************)
EXTENDS Integers, Sequences, FiniteSets, TLC

\* ---------------------------------------------------------------- bounds
MaxSteps == 3      \* editing commands per behaviour of Spec
MaxNodes == 3      \* addNode is not issued beyond this many nodes (Spec)
MaxTyped == 24     \* largest label typed in HistSpec

\* ------------------------------------------------------ program constants
HistoryKeep == 20  \* prev.slice(-20)
ColumnOffset == 240
RowOffset == 60
RootX == 100
RootY == 100

LabelRoot == 0     \* '中心'
LabelNew == 1      \* '新規項目'
Labels == {2}      \* labels typed by the user in Spec
DefaultColor == "#333"
Colors == {"#dc3545"}           \* the palette entry clicked in Spec
MapIds == {"m1", "m2"}          \* document ids (uuid strings)
NoMap == ""                     \* mapId === null
NoName == "<absent>"            \* a record without a name property
NoEdit == <<>>                  \* no CustomNode has isEditing (else <<id>>)

VARIABLES
  view,        \* 'list' | 'edit'
  mapId,       \* id of the open document, NoMap for null
  nodes,       \* sequence of node records
  edges,       \* sequence of edge records
  selected,    \* <<>> for null, <<n>> for the node object handed to onNodeClick
  history,     \* sequence of [n |-> nodes, e |-> edges]
  isSaving,    \* isSavingRef.current; TRUE exactly while a release timer is pending
  storage,     \* localStorage item 'mindmaps'
  uuidCount,   \* uuidv4() calls so far
  error,       \* uncaught exception of the last handler, "none" otherwise
  editing,     \* <<id>> of the node whose CustomNode has isEditing, else NoEdit
  \* observers (not program state)
  lastCmd,     \* the last handler or callback that ran
  before,      \* [n, e, h]: nodes, edges, Len(history) when it started
  pushCalls,   \* the pushHistory calls it made: arguments and outcome
  steps,       \* editing commands so far (Spec)
  pushLog,     \* snapshots accepted by pushHistory since the last undo (HistSpec)
  undoRun      \* consecutive undo calls that changed the graph (HistSpec)

vars == <<view, mapId, nodes, edges, selected, history, isSaving, storage,
          uuidCount, error, editing, lastCmd, before, pushCalls, steps, pushLog,
          undoRun>>

\* ---------------------------------------------------------------- helpers
\* slice(-k) taken one element too long
SliceLastOneMore(s, k) ==
  IF Len(s) <= k + 1 THEN s ELSE SubSeq(s, Len(s) - k, Len(s))

\* Array.prototype.slice(-k)
SliceLast(s, k) ==
  IF Len(s) <= k THEN s ELSE SubSeq(s, Len(s) - k + 1, Len(s))

\* the array without its last element (copy, then pop)
PopLast(s) ==
  IF Len(s) = 0 THEN s ELSE SubSeq(s, 1, Len(s) - 1)

Ids(ns) == {ns[i].id : i \in 1..Len(ns)}

\* JSON.parse(JSON.stringify(x)) on a node array: a fresh array of fresh
\* objects carrying every JSON-representable field
CloneNodes(ns) ==
  [i \in 1..Len(ns) |->
     [id |-> ns[i].id, x |-> ns[i].x, y |-> ns[i].y, label |-> ns[i].label,
      color |-> ns[i].color, hidden |-> ns[i].hidden]]

CloneEdges(es) ==
  [i \in 1..Len(es) |->
     [id |-> es[i].id, source |-> es[i].source, target |-> es[i].target]]

\* the initial document of onCreate
RootNode ==
  [id |-> 1, x |-> RootX, y |-> RootY, label |-> LabelRoot,
   color |-> DefaultColor, hidden |-> FALSE]

InitDoc == [name |-> "new map", nodes |-> <<RootNode>>, edges |-> <<>>]

\* an id source that gives the same id again
UuidRepeats(k) == 2

\* the k-th uuid; never '1', the id of the root node
Uuid(k) == k + 1

\* edge ids: uuidv4() for addNode, ReactFlow's derived id for onConnect
UuidEdgeId(k) == [kind |-> "uuid", a |-> k, b |-> 0]
ConnEdgeId(s, t) == [kind |-> "rf", a |-> s, b |-> t]

\* ------------------------------------------------------------ localStorage
\* The item 'mindmaps'.  kind "null": getItem returns null; kind "json": a
\* string that parses to the object maps, where maps[id] is <<>> when the
\* object has no property id and <<record>> when it has.
NoMaps == [k \in MapIds |-> <<>>]

StoreNull == [kind |-> "null", maps |-> NoMaps]

\* JSON.parse(localStorage.getItem('mindmaps') || '{}')
ParseStore(st) == IF st.kind = "null" THEN NoMaps ELSE st.maps

HasMap(m, id) == m[id] # <<>>

\* saved[id] = rec
PutMap(m, id, rec) == [m EXCEPT ![id] = <<rec>>]




\* an effect that writes an object holding the active document only
AutosaveOnlyActive(st, v, id, ns, es) ==
  IF v = "edit" /\ id # NoMap
  THEN LET saved == ParseStore(st)
           nm == IF HasMap(saved, id) THEN saved[id][1].name ELSE NoName
       IN [kind |-> "json",
           maps |-> PutMap(NoMaps, id, [name |-> nm, nodes |-> ns, edges |-> es])]
  ELSE st

\* an effect that adds the nodes to the stored ones instead of replacing them
AutosaveAppends(st, v, id, ns, es) ==
  IF v = "edit" /\ id # NoMap
  THEN LET saved == ParseStore(st)
           nm == IF HasMap(saved, id) THEN saved[id][1].name ELSE NoName
           old == IF HasMap(saved, id) THEN saved[id][1].nodes ELSE <<>>
       IN [kind |-> "json",
           maps |-> PutMap(saved, id, [name |-> nm, nodes |-> old \o ns, edges |-> es])]
  ELSE st

\* an effect that writes the nodes and keeps the edges of the stored record
AutosaveKeepsEdges(st, v, id, ns, es) ==
  IF v = "edit" /\ id # NoMap
  THEN LET saved == ParseStore(st)
           nm == IF HasMap(saved, id) THEN saved[id][1].name ELSE NoName
           old == IF HasMap(saved, id) THEN saved[id][1].edges ELSE <<>>
       IN [kind |-> "json",
           maps |-> PutMap(saved, id, [name |-> nm, nodes |-> ns, edges |-> old])]
  ELSE st

\* the autosave effect: saved[mapId] = { ...saved[mapId], nodes, edges }
Autosave(st, v, id, ns, es) ==
  IF v = "edit" /\ id # NoMap
  THEN LET saved == ParseStore(st)
           nm == IF HasMap(saved, id) THEN saved[id][1].name ELSE NoName
       IN [kind |-> "json",
           maps |-> PutMap(saved, id, [name |-> nm, nodes |-> ns, edges |-> es])]
  ELSE st

\* ----------------------------------------------------------------- history
\* pushHistory(n, e) applied to hs = [history, isSaving, calls]; calls
\* records each call's arguments and whether it was accepted or dropped
Snapshot(n, e) == [n |-> CloneNodes(n), e |-> CloneEdges(e)]

Call(outcome, n, e) == [outcome |-> outcome, n |-> n, e |-> e]

\* pushHistory without the isSavingRef check
PushHistoryNoLock(hs, n, e) ==
  [history |-> Append(SliceLast(hs.history, HistoryKeep), Snapshot(n, e)),
   isSaving |-> TRUE,
   calls |-> Append(hs.calls, Call("accepted", n, e))]

\* pushHistory keeping the oldest entries: prev.slice(0, 20)
PushHistoryKeepFirst(hs, n, e) ==
  IF hs.isSaving
  THEN [hs EXCEPT !.calls = Append(hs.calls, Call("dropped", n, e))]
  ELSE [history |->
          Append(IF Len(hs.history) <= HistoryKeep THEN hs.history
                 ELSE SubSeq(hs.history, 1, HistoryKeep), Snapshot(n, e)),
        isSaving |-> TRUE,
        calls |-> Append(hs.calls, Call("accepted", n, e))]

PushHistory(hs, n, e) ==
  IF hs.isSaving
  THEN [hs EXCEPT !.calls = Append(hs.calls, Call("dropped", n, e))]
  ELSE [history |-> Append(SliceLast(hs.history, HistoryKeep), Snapshot(n, e)),
        isSaving |-> TRUE,
        calls |-> Append(hs.calls, Call("accepted", n, e))]

HistState == [history |-> history, isSaving |-> isSaving, calls |-> <<>>]

\* undo() guarded by history.length < 1
UndoResultGuardOne(h, ns, es) ==
  IF Len(h) < 1
  THEN [history |-> h, nodes |-> ns, edges |-> es]
  ELSE LET newHistory == PopLast(h)
       IN IF Len(newHistory) = 0
          THEN [history |-> newHistory, nodes |-> ns, edges |-> es]
          ELSE [history |-> newHistory,
                nodes |-> newHistory[Len(newHistory)].n,
                edges |-> newHistory[Len(newHistory)].e]

\* undo() applying the entry it pops instead of the one below it
UndoResultAppliesPopped(h, ns, es) ==
  IF Len(h) < 2
  THEN [history |-> h, nodes |-> ns, edges |-> es]
  ELSE [history |-> PopLast(h), nodes |-> h[Len(h)].n, edges |-> h[Len(h)].e]

\* undo() applied to the history h and the graph (ns, es)
UndoResult(h, ns, es) ==
  IF Len(h) < 2
  THEN [history |-> h, nodes |-> ns, edges |-> es]
  ELSE LET newHistory == PopLast(h)
       IN IF Len(newHistory) = 0        \* prevState is undefined
          THEN [history |-> newHistory, nodes |-> ns, edges |-> es]
          ELSE [history |-> newHistory,
                nodes |-> newHistory[Len(newHistory)].n,
                edges |-> newHistory[Len(newHistory)].e]

\* ------------------------------------------------------- descendant walks
\* Both walks are recursive without a visited set.  A call on an id that is
\* already on the call stack repeats the same calls for ever, so the walk
\* ends in a RangeError (stack exhausted): ok = FALSE.  Otherwise every
\* path of calls has distinct ids and the walk returns: ok = TRUE.
Diverged == [ok |-> FALSE, ids |-> <<>>]

OutEdges(es, id) == SelectSeq(es, LAMBDA e : e.source = id)

\* deleteNode's getChildren(id):
\*   edges.filter(e => e.source === id)
\*        .reduce((acc, e) => [...acc, e.target, ...getChildren(e.target)], [])
RECURSIVE GetChildren(_, _, _)
RECURSIVE GetChildrenReduce(_, _, _, _, _)
GetChildrenReduce(out, i, acc, es, stack) ==
  IF i > Len(out) THEN [ok |-> TRUE, ids |-> acc]
  ELSE LET sub == GetChildren(out[i].target, es, stack)
       IN IF ~sub.ok THEN Diverged
          ELSE GetChildrenReduce(out, i + 1,
                                 acc \o <<out[i].target>> \o sub.ids, es, stack)

GetChildren(id, es, stack) ==
  IF id \in stack THEN Diverged
  ELSE GetChildrenReduce(OutEdges(es, id), 1, <<>>, es, stack \cup {id})

\* getDescendants(parentId) of toggleChildren and of the earlier deleteNode:
\*   children = targets of the edges leaving parentId; all = [...children];
\*   children.forEach(c => all = [...all, ...getDescendants(c)]);
\*   return [parentId, ...all]
RECURSIVE GetDescendants(_, _, _)
RECURSIVE GetDescendantsEach(_, _, _, _, _)
GetDescendantsEach(children, i, all, es, stack) ==
  IF i > Len(children) THEN [ok |-> TRUE, ids |-> all]
  ELSE LET sub == GetDescendants(children[i], es, stack)
       IN IF ~sub.ok THEN Diverged
          ELSE GetDescendantsEach(children, i + 1, all \o sub.ids, es, stack)

GetDescendants(parentId, es, stack) ==
  IF parentId \in stack THEN Diverged
  ELSE LET out == OutEdges(es, parentId)
           children == [i \in 1..Len(out) |-> out[i].target]
           rest == GetDescendantsEach(children, 1, children, es,
                                      stack \cup {parentId})
       IN IF ~rest.ok THEN Diverged
          ELSE [ok |-> TRUE, ids |-> <<parentId>> \o rest.ids]

SeqSet(s) == {s[i] : i \in 1..Len(s)}

\* -------------------------------------------------------------------- Init
\* a store written by an earlier session: one document, as onCreate made it
StoreOne == [kind |-> "json", maps |-> PutMap(NoMaps, "m1", InitDoc)]

InitStores == {StoreNull, StoreOne}

Init ==
  /\ view = "list"
  /\ mapId = NoMap
  /\ nodes = <<>>
  /\ edges = <<>>
  /\ selected = <<>>
  /\ history = <<>>
  /\ isSaving = FALSE
  /\ storage \in InitStores
  /\ uuidCount = 0
  /\ error = "none"
  /\ editing = NoEdit
  /\ lastCmd = "init"
  /\ before = [n |-> <<>>, e |-> <<>>, h |-> 0]
  /\ pushCalls = <<>>
  /\ steps = 0
  /\ pushLog = <<>>
  /\ undoRun = 0

\* what the observers record when the handler cmd runs
Observe(cmd, calls) ==
  /\ lastCmd' = cmd
  /\ before' = [n |-> nodes, e |-> edges, h |-> Len(history)]
  /\ pushCalls' = calls

\* ---------------------------------------------------------------- handlers
\* MapListView onSelect(id): ids listed are the keys of the stored object
OnSelect(id) ==
  /\ view = "list"
  /\ storage.kind = "json"
  /\ HasMap(storage.maps, id)
  /\ LET d == storage.maps[id][1]
     IN /\ nodes' = d.nodes
        /\ edges' = d.edges
        /\ mapId' = id
        /\ view' = "edit"
        /\ history' = <<[n |-> d.nodes, e |-> d.edges]>>
        /\ storage' = Autosave(storage, "edit", id, d.nodes, d.edges)
  /\ error' = "none"
  /\ UNCHANGED <<selected, isSaving, uuidCount>>
  /\ Observe("open", <<>>)


\* a create that starts from an empty object instead of the stored one
OnCreateFreshStore(id) ==
  /\ view = "list"
  /\ ~HasMap(ParseStore(storage), id)
  /\ LET saved == PutMap(NoMaps, id, InitDoc)
     IN storage' = Autosave([kind |-> "json", maps |-> saved], "edit", id,
                            InitDoc.nodes, InitDoc.edges)
  /\ nodes' = InitDoc.nodes
  /\ edges' = InitDoc.edges
  /\ mapId' = id
  /\ view' = "edit"
  /\ error' = "none"
  /\ UNCHANGED <<selected, history, isSaving, uuidCount>>
  /\ Observe("create", <<>>)

\* MapListView onCreate: id = uuidv4(), an id no stored document has
OnCreate(id) ==
  /\ view = "list"
  /\ ~HasMap(ParseStore(storage), id)
  /\ LET saved == PutMap(ParseStore(storage), id, InitDoc)
     IN storage' = Autosave([kind |-> "json", maps |-> saved], "edit", id,
                            InitDoc.nodes, InitDoc.edges)
  /\ nodes' = InitDoc.nodes
  /\ edges' = InitDoc.edges
  /\ mapId' = id
  /\ view' = "edit"
  /\ error' = "none"
  /\ UNCHANGED <<selected, history, isSaving, uuidCount>>
  /\ Observe("create", <<>>)

\* MapListView delete button, confirmed: delete n[id] and write the store
OnDeleteMap(id) ==
  /\ view = "list"
  /\ storage.kind = "json"
  /\ HasMap(storage.maps, id)
  /\ storage' = [kind |-> "json", maps |-> [storage.maps EXCEPT ![id] = <<>>]]
  /\ error' = "none"
  /\ UNCHANGED <<view, mapId, nodes, edges, selected, history, isSaving, uuidCount>>
  /\ Observe("deleteMap", <<>>)

\* onNodeClick={(_, n) => setSelected(n)}
OnNodeClick(i) ==
  /\ view = "edit"
  /\ i \in 1..Len(nodes)
  /\ selected' = <<nodes[i]>>
  /\ Observe("select", <<>>)
  /\ UNCHANGED <<view, mapId, nodes, edges, history, isSaving, storage,
                 uuidCount, error>>

\* onPaneClick={() => setSelected(null)}
OnPaneClick ==
  /\ view = "edit"
  /\ selected' = <<>>
  /\ Observe("paneClick", <<>>)
  /\ UNCHANGED <<view, mapId, nodes, edges, history, isSaving, storage,
                 uuidCount, error>>

\* a timer callback that leaves the lock set
TimerFireKeepsLock ==
  /\ isSaving
  /\ isSaving' = TRUE
  /\ Observe("timer", <<>>)
  /\ UNCHANGED <<view, mapId, nodes, edges, selected, history, storage,
                 uuidCount, error>>

\* the setTimeout callback of pushHistory
TimerFire ==
  /\ isSaving
  /\ isSaving' = FALSE
  /\ Observe("timer", <<>>)
  /\ UNCHANGED <<view, mapId, nodes, edges, selected, history, storage,
                 uuidCount, error>>


\* a count that leaves out one node of the column
SiblingCountOneLess(sel, ns) ==
  LET col == {i \in 1..Len(ns) : ns[i].x = sel.x + ColumnOffset}
  IN IF col = {} THEN 0 ELSE Cardinality(col) - 1

\* nodes.filter(n => n.position.x === selected.position.x + 240).length
SiblingCount(sel, ns) ==
  Cardinality({i \in 1..Len(ns) : ns[i].x = sel.x + ColumnOffset})


\* an edge that runs from the new node to the selected one
NewEdgeReversed(eid, sel, id) == [id |-> eid, source |-> id, target |-> sel.id]

\* { id: uuidv4(), source: selected.id, target: id }
NewEdge(eid, sel, id) == [id |-> eid, source |-> sel.id, target |-> id]

\* addNode (button, Tab)
AddNode ==
  /\ view = "edit"
  /\ IF selected = <<>>
     THEN /\ UNCHANGED <<nodes, edges, history, isSaving, storage, uuidCount>>
          /\ Observe("addNode", <<>>)
     ELSE LET sel == selected[1]
              hs1 == PushHistory(HistState, nodes, edges)
              id == Uuid(uuidCount + 1)
              siblingCount == SiblingCount(sel, nodes)
              newNode == [id |-> id, x |-> sel.x + ColumnOffset,
                          y |-> sel.y + siblingCount * RowOffset,
                          label |-> LabelNew, color |-> sel.color, hidden |-> FALSE]
              nextNodes == Append(nodes, newNode)
              nextEdges == Append(edges, NewEdge(UuidEdgeId(uuidCount + 2), sel, id))
              hs2 == PushHistory(hs1, nextNodes, nextEdges)
          IN /\ nodes' = nextNodes
             /\ edges' = nextEdges
             /\ history' = hs2.history
             /\ isSaving' = hs2.isSaving
             /\ uuidCount' = uuidCount + 2
             /\ storage' = Autosave(storage, view, mapId, nextNodes, nextEdges)
             /\ Observe("addNode", hs2.calls)
  /\ error' = "none"
  /\ UNCHANGED <<view, mapId, selected>>


\* a deleteNode that takes its snapshot before it looks at the selection
DeleteNodePushFirst ==
  /\ view = "edit"
  /\ LET hs1 == PushHistory(HistState, nodes, edges)
     IN /\ history' = hs1.history
        /\ isSaving' = hs1.isSaving
        /\ Observe("deleteNode", hs1.calls)
        /\ IF selected = <<>>
           THEN UNCHANGED <<nodes, edges, storage, selected>> /\ error' = "none"
           ELSE LET walk == GetChildren(selected[1].id, edges, {})
                    targets == {selected[1].id} \cup SeqSet(walk.ids)
                    nextNodes == SelectSeq(nodes, LAMBDA n : n.id \notin targets)
                    nextEdges == SelectSeq(edges, LAMBDA e : e.source \notin targets
                                                             /\ e.target \notin targets)
                IN IF walk.ok
                   THEN /\ nodes' = nextNodes
                        /\ edges' = nextEdges
                        /\ selected' = <<>>
                        /\ storage' = Autosave(storage, view, mapId, nextNodes, nextEdges)
                        /\ error' = "none"
                   ELSE /\ error' = "RangeError"
                        /\ UNCHANGED <<nodes, edges, selected, storage>>
  /\ UNCHANGED <<view, mapId, uuidCount>>

\* deleteNode (button, Delete, Backspace)
DeleteNode ==
  /\ view = "edit"
  /\ IF selected = <<>>
     THEN /\ UNCHANGED <<nodes, edges, history, isSaving, storage, selected>>
          /\ error' = "none"
          /\ Observe("deleteNode", <<>>)
     ELSE LET sel == selected[1]
              hs1 == PushHistory(HistState, nodes, edges)
              walk == GetChildren(sel.id, edges, {})
              targets == {sel.id} \cup SeqSet(walk.ids)
              nextNodes == SelectSeq(nodes, LAMBDA n : n.id \notin targets)
              nextEdges == SelectSeq(edges, LAMBDA e : e.source \notin targets
                                                       /\ e.target \notin targets)
          IN /\ history' = hs1.history
             /\ isSaving' = hs1.isSaving
             /\ Observe("deleteNode", hs1.calls)
             /\ IF walk.ok
                THEN /\ nodes' = nextNodes
                     /\ edges' = nextEdges
                     /\ selected' = <<>>
                     /\ storage' = Autosave(storage, view, mapId, nextNodes, nextEdges)
                     /\ error' = "none"
                ELSE \* getChildren throws; the statements after it do not run
                     /\ error' = "RangeError"
                     /\ UNCHANGED <<nodes, edges, selected, storage>>
  /\ UNCHANGED <<view, mapId, uuidCount>>

\* updateLabel(id, label), called by CustomNode's save
UpdateLabel(id, label) ==
  /\ view = "edit"
  /\ id \in Ids(nodes)
  /\ LET nextNodes == [i \in 1..Len(nodes) |->
                         IF nodes[i].id = id
                         THEN [nodes[i] EXCEPT !.label = label] ELSE nodes[i]]
         hs1 == PushHistory(HistState, nextNodes, edges)
     IN /\ nodes' = nextNodes
        /\ history' = hs1.history
        /\ isSaving' = hs1.isSaving
        /\ storage' = Autosave(storage, view, mapId, nextNodes, edges)
        /\ Observe("updateLabel", hs1.calls)
  /\ error' = "none"
  /\ UNCHANGED <<view, mapId, edges, selected, uuidCount>>

\* ColorPicker onColorChange(c); the picker is rendered only with a selection
OnColorChange(c) ==
  /\ view = "edit"
  /\ selected # <<>>
  /\ LET hs1 == PushHistory(HistState, nodes, edges)
         nextNodes == [i \in 1..Len(nodes) |->
                         IF nodes[i].id = selected[1].id
                         THEN [nodes[i] EXCEPT !.color = c] ELSE nodes[i]]
     IN /\ nodes' = nextNodes
        /\ history' = hs1.history
        /\ isSaving' = hs1.isSaving
        /\ storage' = Autosave(storage, view, mapId, nextNodes, edges)
        /\ Observe("recolor", hs1.calls)
  /\ error' = "none"
  /\ UNCHANGED <<view, mapId, edges, selected, uuidCount>>

\* undo (button, Ctrl+Z)
Undo ==
  /\ view = "edit"
  /\ LET r == UndoResult(history, nodes, edges)
     IN /\ history' = r.history
        /\ nodes' = r.nodes
        /\ edges' = r.edges
        /\ storage' = Autosave(storage, view, mapId, r.nodes, r.edges)
  /\ error' = "none"
  /\ Observe("undo", <<>>)
  /\ UNCHANGED <<view, mapId, selected, isSaving, uuidCount>>

\* onConnect={(p) => setEdges(eds => addEdge(p, eds))}: ReactFlow's addEdge
\* appends the connection unless an edge with the same ends exists
OnConnect(s, t) ==
  /\ view = "edit"
  /\ s \in Ids(nodes) /\ t \in Ids(nodes)
  /\ LET exists == \E i \in 1..Len(edges) : edges[i].source = s /\ edges[i].target = t
         nextEdges == IF exists THEN edges
                      ELSE Append(edges, [id |-> ConnEdgeId(s, t),
                                          source |-> s, target |-> t])
     IN /\ edges' = nextEdges
        /\ storage' = Autosave(storage, view, mapId, nodes, nextEdges)
  /\ error' = "none"
  /\ Observe("connect", <<>>)
  /\ UNCHANGED <<view, mapId, nodes, selected, history, isSaving, uuidCount>>

\* ------------------------------------------------------------------- Spec
\* Spec: every handler, at most MaxSteps editing commands
\* (the text box of a node is opened and closed by the handlers of KeySpec;
\* updateLabel run as one command stands for a whole editing session)
Free == UNCHANGED <<steps, pushLog, undoRun, editing>>

Tick ==
  steps < MaxSteps /\ steps' = steps + 1 /\ UNCHANGED <<pushLog, undoRun, editing>>

OpenDoc == \E id \in MapIds : OnSelect(id) /\ Free

CreateDoc == \E id \in MapIds : OnCreate(id) /\ Free

DeleteDoc == \E id \in MapIds : OnDeleteMap(id) /\ Free

SelectNode == \E i \in 1..Len(nodes) : OnNodeClick(i) /\ Free

ClearSelection == OnPaneClick /\ Free

Timer == TimerFire /\ Free

AddChild == Len(nodes) < MaxNodes /\ AddNode /\ Tick

DeleteSubtree == DeleteNode /\ Tick

RenameNode == \E id \in Ids(nodes), l \in Labels : UpdateLabel(id, l) /\ Tick

Recolor == \E c \in Colors : OnColorChange(c) /\ Tick

UndoCmd == Undo /\ Tick

Connect ==
  \E s \in Ids(nodes) : \E t \in Ids(nodes) \ {s} : OnConnect(s, t) /\ Tick

Next ==
  \/ OpenDoc
  \/ CreateDoc
  \/ DeleteDoc
  \/ SelectNode
  \/ ClearSelection
  \/ Timer
  \/ AddChild
  \/ DeleteSubtree
  \/ RenameNode
  \/ Recolor
  \/ UndoCmd
  \/ Connect

Spec == Init /\ [][Next]_vars

\* the timer callback is run by the event loop once its 100ms have passed
FairSpec == Spec /\ WF_vars(Timer)

\* --------------------------------------------------------------- HistSpec
\* HistSpec: one document, labels typed one after the other, each while the
\* lock is idle (spaced beyond the debounce window), and undo; long enough
\* for the history to fill and evict.  The label typed is the next natural,
\* so every snapshot pushed differs from the others.
Accepted(calls) ==
  LET acc == SelectSeq(calls, LAMBDA c : c.outcome = "accepted")
  IN [i \in 1..Len(acc) |-> [n |-> acc[i].n, e |-> acc[i].e]]

TypeNext ==
  /\ ~isSaving
  /\ \E i \in 1..Len(nodes) :
       /\ nodes[i].label < MaxTyped
       /\ UpdateLabel(nodes[i].id, nodes[i].label + 1)
  /\ pushLog' = pushLog \o Accepted(pushCalls')
  /\ undoRun' = 0
  /\ UNCHANGED <<steps, editing>>

UndoNext ==
  /\ Undo
  /\ pushLog' = <<>>
  /\ undoRun' = IF nodes' # nodes \/ edges' # edges THEN undoRun + 1 ELSE undoRun
  /\ UNCHANGED <<steps, editing>>

HistNext ==
  \/ OpenDoc
  \/ CreateDoc
  \/ Timer
  \/ TypeNext
  \/ UndoNext

HistSpec == Init /\ [][HistNext]_vars

\* ================================================================= claims
Top(h) == h[Len(h)]

\* C1: addChild with a selection, followed immediately by one undo, leaves
\* nodes and edges as they were immediately before the addChild.
C1_AddThenUndoRestores ==
  [][(lastCmd = "addNode" /\ selected # <<>> /\ lastCmd' = "undo")
       => (nodes' = before.n /\ edges' = before.e)]_vars

\* C2: in an open document with a non-empty history, the last history entry
\* equals the current (nodes, edges).
C2_TopIsCurrent ==
  (view = "edit" /\ history # <<>>)
    => (Top(history).n = nodes /\ Top(history).e = edges)

\* C3: addChild with a selection and the lock idle appends two entries: the
\* pre-add graph below the top, the post-add graph on top.
C3_AddPushesBoth ==
  [][(lastCmd' = "addNode" /\ selected # <<>> /\ ~isSaving)
       => /\ Len(history') = Len(history) + 2
          /\ SubSeq(history', 1, Len(history)) = history
          /\ history'[Len(history') - 1] = Snapshot(nodes, edges)
          /\ history'[Len(history')] = Snapshot(nodes', edges')]_vars

\* C4: the history never holds more than 21 entries.
C4_HistoryBound == Len(history) <= 21

C4_Witness == Len(history) = 21 /\ Len(pushLog) > 21 /\ lastCmd = "updateLabel"

\* C5: after more than 21 accepted pushes with no undo in between, the
\* history is exactly the 21 snapshots pushed last, in push order; and undo
\* changes the graph at most 20 times in a row (the next undo is a no-op).
C5_EvictOldest ==
  /\ Len(pushLog) > 21
       => history = SubSeq(pushLog, Len(pushLog) - 20, Len(pushLog))
  /\ undoRun <= 20

\* twenty undos that each changed the graph, then one that did nothing, on
\* a history whose oldest snapshots had been evicted
C5_Witness ==
  /\ undoRun = 20
  /\ lastCmd = "undo"
  /\ before.h = 1
  /\ nodes = before.n
  /\ Len(history) = 1
  /\ history[1].n[1].label > LabelNew + 1

\* C6: undo with fewer than 2 history entries changes neither nodes, edges,
\* the history nor the selection.
C6_UndoNoop ==
  [][(lastCmd' = "undo" /\ Len(history) < 2)
       => UNCHANGED <<nodes, edges, history, selected>>]_vars

C6_Witness ==
  lastCmd = "undo" /\ before.h = 1 /\ Len(history) = 1 /\ Len(nodes) > 1

\* C7: undo with n >= 2 entries leaves the first n-1 entries as the history
\* and sets nodes and edges to those of the new last entry; no other
\* command brings an entry back: apart from undo the history only changes
\* by one snapshot of the graph as it is before or after the command being
\* appended.
C7_UndoPops ==
  [][/\ (lastCmd' = "undo" /\ Len(history) >= 2)
          => /\ history' = SubSeq(history, 1, Len(history) - 1)
             /\ nodes' = history[Len(history) - 1].n
             /\ edges' = history[Len(history) - 1].e
     /\ (view = "edit" /\ lastCmd' # "undo" /\ history' # history)
          => /\ history' # <<>>
             /\ PopLast(history') = SliceLast(history, HistoryKeep)
             /\ Top(history') \in {Snapshot(nodes, edges), Snapshot(nodes', edges')}
    ]_vars

C7_Witness ==
  lastCmd = "undo" /\ before.h >= 2 /\ Len(history) = before.h - 1
  /\ nodes # before.n

\* C8: a push issued while the lock is held leaves the history unchanged;
\* the history grows only by one entry per step, from an idle lock, and the
\* lock is held afterwards: at most one entry between two releases.
C8_DebounceDrops ==
  [][view = "edit"
       => /\ (isSaving /\ pushCalls' # <<>>) => history' = history
          /\ (lastCmd' # "undo" /\ history' # history)
               => /\ ~isSaving
                  /\ isSaving'
                  /\ history' # <<>>
                  /\ PopLast(history') = SliceLast(history, HistoryKeep)]_vars

C8_Witness ==
  /\ isSaving
  /\ \E i \in 1..Len(pushCalls) : pushCalls[i].outcome = "dropped"
  /\ lastCmd = "deleteNode"

\* C9: a held lock is always released by its timer, and a push issued with
\* the lock idle is accepted and appended (and takes the lock).
C9_LockCycle ==
  /\ isSaving ~> ~isSaving
  /\ [][(~isSaving /\ pushCalls' # <<>>)
          => /\ pushCalls'[1].outcome = "accepted"
             /\ isSaving'
             /\ history' = Append(SliceLast(history, HistoryKeep),
                                  Snapshot(pushCalls'[1].n, pushCalls'[1].e))]_vars

\* a push accepted after an earlier accepted push: the lock was released
\* in between
C9_Witness ==
  /\ isSaving
  /\ pushCalls # <<>>
  /\ pushCalls[1].outcome = "accepted"
  /\ Len(history) >= 3

\* C10: for every start id the descendant walks of deleteNode (getChildren)
\* and of toggleChildren (getDescendants) terminate, and the result of
\* getDescendants contains the start id.
C10_WalkTerminates ==
  \A id \in Ids(nodes) :
    /\ GetChildren(id, edges, {}).ok
    /\ GetDescendants(id, edges, {}).ok
    /\ id \in SeqSet(GetDescendants(id, edges, {}).ids)

\* the ids reachable from the ids in S along edges source -> target
RECURSIVE ReachFrom(_, _)
ReachFrom(S, es) ==
  LET T == S \cup {es[i].target : i \in {j \in 1..Len(es) : es[j].source \in S}}
  IN IF T = S THEN S ELSE ReachFrom(T, es)

\* C11: deleteSubtree with node X selected removes exactly the nodes
\* reachable from X (X included), removes every edge with a removed end,
\* leaves the other nodes and edges as they are and in order, and clears
\* the selection.
C11_DeleteExactlySubtree ==
  [][(lastCmd' = "deleteNode" /\ selected # <<>>)
       => LET R == ReachFrom({selected[1].id}, edges)
          IN /\ nodes' = SelectSeq(nodes, LAMBDA n : n.id \notin R)
             /\ edges' = SelectSeq(edges, LAMBDA e : e.source \notin R
                                                      /\ e.target \notin R)
             /\ selected' = <<>>]_vars

\* ------------------------------------------------------------- LayoutSpec
\* LayoutSpec: select, add, delete and undo only, with room for four
\* editing commands and four nodes
MaxLayoutSteps == 4

MaxLayoutNodes == 4

TickTo(max) ==
  steps < max /\ steps' = steps + 1 /\ UNCHANGED <<pushLog, undoRun, editing>>

LayoutAdd == Len(nodes) < MaxLayoutNodes /\ AddNode /\ TickTo(MaxLayoutSteps)

LayoutDelete == DeleteNode /\ TickTo(MaxLayoutSteps)

LayoutUndo == Undo /\ TickTo(MaxLayoutSteps)

LayoutNext ==
  \/ OpenDoc
  \/ CreateDoc
  \/ SelectNode
  \/ Timer
  \/ LayoutAdd
  \/ LayoutDelete
  \/ LayoutUndo

LayoutSpec == Init /\ [][LayoutNext]_vars

\* C12: no two distinct nodes placed by addNode in the same column have the
\* same (x, y), whatever sequence of select, add, delete and undo ran.
C12_NoOverlap ==
  \A i \in 1..Len(nodes) : \A j \in 1..Len(nodes) :
    (i # j /\ nodes[i].label # LabelRoot /\ nodes[j].label # LabelRoot
       /\ nodes[i].x = nodes[j].x)
      => nodes[i].y # nodes[j].y

\* C13: the node created by addNode is at x = parent.x + ColumnOffset and
\* y = parent.y + k * RowOffset, k being the number of nodes that were at
\* x = parent.x + ColumnOffset before the call.
C13_Placement ==
  [][(lastCmd' = "addNode" /\ selected # <<>>)
       => LET parent == selected[1]
              k == Cardinality({i \in 1..Len(nodes) :
                                  nodes[i].x = parent.x + ColumnOffset})
              created == nodes'[Len(nodes')]
          IN /\ Len(nodes') = Len(nodes) + 1
             /\ created.x = parent.x + ColumnOffset
             /\ created.y = parent.y + k * RowOffset]_vars

\* the spec's example: a third node in the column of the root's children
C13_Witness ==
  /\ lastCmd = "addNode"
  /\ Len(nodes) = Len(before.n) + 1
  /\ selected # <<>>
  /\ selected[1].x = RootX /\ selected[1].y = RootY
  /\ Cardinality({i \in 1..Len(before.n) :
                    before.n[i].x = RootX + ColumnOffset}) = 2
  /\ nodes[Len(nodes)].x = RootX + ColumnOffset
  /\ nodes[Len(nodes)].y = RootY + 2 * RowOffset

\* --------------------------------------------------------------- TreeSpec
\* nds.find(x => x.id === id): the first node with that id
FindNode(ns, id) ==
  ns[CHOOSE i \in 1..Len(ns) :
       ns[i].id = id /\ \A j \in 1..(i - 1) : ns[j].id # id]

\* nds.map(n => childIds.includes(n.id)
\*   ? { ...n, hidden: !nds.find(x => x.id === n.id)?.hidden } : n)
\* (a node without the field counts as hidden = FALSE)
FlipHidden(ns, ids) ==
  [i \in 1..Len(ns) |->
     IF ns[i].id \in SeqSet(ids)
     THEN [ns[i] EXCEPT !.hidden = ~FindNode(ns, ns[i].id).hidden]
     ELSE ns[i]]

\* toggleChildren(nodeId); the node list is saved by the autosave effect
ToggleChildren(nodeId) ==
  /\ view = "edit"
  /\ LET walk == GetDescendants(nodeId, edges, {})
     IN IF walk.ok
        THEN LET nextNodes == FlipHidden(nodes, walk.ids)
             IN /\ nodes' = nextNodes
                /\ storage' = Autosave(storage, view, mapId, nextNodes, edges)
                /\ error' = "none"
        ELSE /\ error' = "RangeError"
             /\ UNCHANGED <<nodes, storage>>
  /\ Observe("toggle", <<>>)
  /\ UNCHANGED <<view, mapId, edges, selected, history, isSaving, uuidCount>>

\* edges.filter(e => !nodes.find(n => n.id === e.source)?.hidden
\*                && !nodes.find(n => n.id === e.target)?.hidden)
\* (find gives undefined for an id no node has, and !undefined is true)
RenderedEdges(ns, es) ==
  SelectSeq(es, LAMBDA e :
    /\ ~(e.source \in Ids(ns) /\ FindNode(ns, e.source).hidden)
    /\ ~(e.target \in Ids(ns) /\ FindNode(ns, e.target).hidden))

\* nodes.filter(n => !n.hidden)
RenderedNodes(ns) == SelectSeq(ns, LAMBDA n : ~n.hidden)

\* TreeSpec: select, add, delete, undo and toggle, at most MaxTreeSteps
\* editing commands and MaxTreeNodes nodes
MaxTreeSteps == 4

MaxTreeNodes == 3

TreeAdd == Len(nodes) < MaxTreeNodes /\ AddNode /\ TickTo(MaxTreeSteps)

TreeDelete == DeleteNode /\ TickTo(MaxTreeSteps)

TreeUndo == Undo /\ TickTo(MaxTreeSteps)

TreeToggle == \E n \in Ids(nodes) : ToggleChildren(n) /\ TickTo(MaxTreeSteps)

TreeNext ==
  \/ OpenDoc
  \/ CreateDoc
  \/ SelectNode
  \/ Timer
  \/ TreeAdd
  \/ TreeDelete
  \/ TreeUndo
  \/ TreeToggle

TreeSpec == Init /\ [][TreeNext]_vars

\* the proper descendants of n: what is reachable from n, without n
ProperDescendants(n, es) == ReachFrom({n}, es) \ {n}

\* C14: toggleChildren(n) changes the hidden flag of proper descendants of n
\* only and never of n itself; with every node visible it hides exactly the
\* proper descendants, and a second toggleChildren(n) gives the node list
\* back as it was.
C14_ToggleProperDescendants ==
  [][\A n \in Ids(nodes) :
       (lastCmd' = "toggle" /\ ToggleChildren(n))
         => LET D == ProperDescendants(n, edges)
            IN /\ \A i \in 1..Len(nodes) :
                    nodes[i].id \notin D => nodes'[i] = nodes[i]
               /\ (\A i \in 1..Len(nodes) : ~nodes[i].hidden)
                    => \A i \in 1..Len(nodes) :
                         nodes'[i].hidden = (nodes[i].id \in D)
               /\ (lastCmd = "toggle" /\ before.e = edges
                     /\ nodes = FlipHidden(before.n,
                                           GetDescendants(n, edges, {}).ids))
                    => nodes' = before.n]_vars

\* C15: after toggleChildren(n) every proper descendant of n has the same
\* hidden value, the negation of the value one of them had before the call.
C15_ToggleUniform ==
  [][\A n \in Ids(nodes) :
       (lastCmd' = "toggle" /\ ToggleChildren(n))
         => LET D == {i \in 1..Len(nodes) :
                        nodes[i].id \in ProperDescendants(n, edges)}
            IN D # {} => \E r \in D : \A i \in D :
                           nodes'[i].hidden = ~nodes[r].hidden]_vars

\* C16: every edge handed to ReactFlow has both ends among the nodes that
\* exist and are not hidden.
C16_RenderedEdgesVisible ==
  view = "edit" =>
    LET visible == Ids(RenderedNodes(nodes))
        shown == RenderedEdges(nodes, edges)
    IN \A i \in 1..Len(shown) :
         shown[i].source \in visible /\ shown[i].target \in visible

\* C17: while a document is edited, the stored record of that document
\* holds the current nodes and edges, after every command.
C17_StoreFollowsGraph ==
  view = "edit" =>
    /\ storage.kind = "json"
    /\ HasMap(storage.maps, mapId)
    /\ storage.maps[mapId][1].nodes = nodes
    /\ storage.maps[mapId][1].edges = edges

\* an undo that changed the edges has been written to the store
C17_Witness ==
  /\ lastCmd = "undo"
  /\ before.e # edges
  /\ storage.kind = "json"
  /\ HasMap(storage.maps, mapId)
  /\ storage.maps[mapId][1].nodes = nodes
  /\ storage.maps[mapId][1].edges = edges

\* --------------------------------------------------------------- SaveSpec
\* SaveSpec: the save of the autosave effect as a function of the store, the
\* document id and the node and edge lists, on sample inputs
ChildNode ==
  [id |-> Uuid(1), x |-> RootX + ColumnOffset, y |-> RootY, label |-> LabelNew,
   color |-> DefaultColor, hidden |-> FALSE]

ChildEdge == [id |-> UuidEdgeId(2), source |-> RootNode.id, target |-> ChildNode.id]

SampleDocs ==
  {[nodes |-> <<RootNode>>, edges |-> <<>>],
   [nodes |-> <<RootNode, ChildNode>>, edges |-> <<ChildEdge>>]}

NamedDoc == [name |-> "plan", nodes |-> <<RootNode, ChildNode>>, edges |-> <<ChildEdge>>]

SampleStores ==
  {StoreNull,
   StoreOne,
   [kind |-> "json", maps |-> PutMap(NoMaps, "m1", NamedDoc)],
   [kind |-> "json", maps |-> PutMap(PutMap(NoMaps, "m1", NamedDoc), "m2", InitDoc)]}

\* consecutive saves counted in steps
MaxSaves == 2

SaveInit ==
  /\ view = "edit"
  /\ mapId \in MapIds
  /\ \E d \in SampleDocs : nodes = d.nodes /\ edges = d.edges
  /\ storage \in SampleStores
  /\ selected = <<>>
  /\ history = <<>>
  /\ isSaving = FALSE
  /\ uuidCount = 0
  /\ error = "none"
  /\ editing = NoEdit
  /\ lastCmd = "init"
  /\ before = [n |-> <<>>, e |-> <<>>, h |-> 0]
  /\ pushCalls = <<>>
  /\ steps = 0
  /\ pushLog = <<>>
  /\ undoRun = 0

\* one run of the autosave effect
SaveStep ==
  /\ steps < MaxSaves
  /\ storage' = Autosave(storage, view, mapId, nodes, edges)
  /\ steps' = steps + 1
  /\ Observe("save", <<>>)
  /\ UNCHANGED <<view, mapId, nodes, edges, selected, history, isSaving,
                 uuidCount, error, editing, pushLog, undoRun>>

\* const d = JSON.parse(localStorage.getItem('mindmaps'))[id], made current
LoadStep ==
  /\ storage.kind = "json"
  /\ \E id \in MapIds :
       /\ HasMap(storage.maps, id)
       /\ nodes' = storage.maps[id][1].nodes
       /\ edges' = storage.maps[id][1].edges
       /\ mapId' = id
  /\ steps' = 0
  /\ Observe("load", <<>>)
  /\ UNCHANGED <<view, selected, history, isSaving, uuidCount, error, storage,
                 editing, pushLog, undoRun>>

\* the node and edge lists become another sample document
EditStep ==
  /\ \E d \in SampleDocs :
       /\ d.nodes # nodes
       /\ nodes' = d.nodes
       /\ edges' = d.edges
  /\ steps' = 0
  /\ Observe("edit", <<>>)
  /\ UNCHANGED <<view, mapId, selected, history, isSaving, uuidCount, error,
                 storage, editing, pushLog, undoRun>>

SaveNext == SaveStep \/ LoadStep \/ EditStep

SaveSpec == SaveInit /\ [][SaveNext]_vars

\* C18: save keeps the name of an existing record; when the store has no
\* record for the id, the record it creates has a name, and that name is not
\* empty; in both cases the record holds the given nodes and edges.
C18_SaveKeepsOrDefaultsName ==
  [][lastCmd' = "save"
       => LET old == ParseStore(storage)
              new == storage'.maps[mapId][1]
          IN /\ new.nodes = nodes
             /\ new.edges = edges
             /\ HasMap(old, mapId) => new.name = old[mapId][1].name
             /\ ~HasMap(old, mapId) => (new.name # NoName /\ new.name # "")]_vars

\* C19: a save that follows a save of the same id, nodes and edges, or that
\* follows the load of the document, leaves the whole store as it is.
C19_SaveIdempotent ==
  [][(lastCmd' = "save" /\ lastCmd \in {"save", "load"}) => storage' = storage]_vars

\* a second save in a row, of a two-node document, has run
C19_Witness ==
  /\ lastCmd = "save"
  /\ steps = 2
  /\ Len(nodes) = 2
  /\ storage.maps[mapId][1].nodes = nodes

\* C20: onCreate adds exactly one record, under an id no record had; the
\* record has a name, the single root node and no edges, and every record
\* that existed before is unchanged.
C20_CreateAddsOneRecord ==
  [][lastCmd' = "create"
       => LET old == ParseStore(storage)
              new == ParseStore(storage')
          IN \E id \in MapIds :
               /\ ~HasMap(old, id)
               /\ HasMap(new, id)
               /\ new[id][1].name \notin {NoName, ""}
               /\ new[id][1].nodes = <<RootNode>>
               /\ new[id][1].edges = <<>>
               /\ \A other \in MapIds \ {id} : new[other] = old[other]]_vars

\* a document was created next to one that was stored before
C20_Witness ==
  /\ lastCmd = "create"
  /\ storage.kind = "json"
  /\ \A id \in MapIds : HasMap(storage.maps, id)
  /\ storage.maps[mapId][1].nodes = <<RootNode>>

\* C21: addNode, deleteNode and the colour change, run while nothing is
\* selected, change neither nodes nor edges nor the history nor the lock nor
\* the store.
C21_NoSelectionNoChange ==
  [][(lastCmd' \in {"addNode", "deleteNode", "recolor"} /\ selected = <<>>)
       => UNCHANGED <<nodes, edges, history, isSaving, storage, selected>>]_vars

\* deleteNode and addNode have both run on a document with two nodes and
\* nothing selected
C21_Witness ==
  /\ lastCmd \in {"addNode", "deleteNode"}
  /\ selected = <<>>
  /\ pushCalls = <<>>
  /\ Len(nodes) = 2
  /\ before.n = nodes
  /\ steps = 3

\* --------------------------------------------------------------- LoadSpec
\* LoadSpec: reading the store in the list and in onSelect, with a store that
\* something outside the page may replace at any time.  kind "corrupt": the
\* item is a string that JSON.parse rejects.
StoreCorrupt == [kind |-> "corrupt", maps |-> NoMaps]

StoreEmpty == [kind |-> "json", maps |-> NoMaps]

LoadStores ==
  {StoreNull, StoreCorrupt, StoreEmpty, StoreOne,
   [kind |-> "json", maps |-> PutMap(NoMaps, "m2", NamedDoc)],
   [kind |-> "json", maps |-> PutMap(PutMap(NoMaps, "m1", InitDoc), "m2", NamedDoc)],
   [kind |-> "json", maps |-> PutMap(PutMap(NoMaps, "m1", NamedDoc), "m2", InitDoc)]}

\* MapListView effect: const saved = getItem(...); if (saved) setMaps(JSON.parse(saved))
ListMaps(st) ==
  CASE st.kind = "null" -> [error |-> "none", maps |-> NoMaps]
    [] st.kind = "json" -> [error |-> "none", maps |-> st.maps]
    [] OTHER -> [error |-> "SyntaxError", maps |-> NoMaps]

\* const d = JSON.parse(localStorage.getItem('mindmaps'))[id], then d.nodes:
\* JSON.parse(null) is null and null[id] throws; a missing property gives
\* undefined and undefined.nodes throws
OpenRecord(st, id) ==
  CASE st.kind = "null" -> [error |-> "TypeError"]
    [] st.kind = "json" -> IF HasMap(st.maps, id) THEN [error |-> "none"]
                                                      ELSE [error |-> "TypeError"]
    [] OTHER -> [error |-> "SyntaxError"]

LoadInit ==
  /\ view = "start"
  /\ mapId = NoMap
  /\ nodes = <<>>
  /\ edges = <<>>
  /\ selected = <<>>
  /\ history = <<>>
  /\ isSaving = FALSE
  /\ storage \in LoadStores
  /\ uuidCount = 0
  /\ error = "none"
  /\ editing = NoEdit
  /\ lastCmd = "init"
  /\ before = [n |-> <<>>, e |-> <<>>, h |-> 0]
  /\ pushCalls = <<>>
  /\ steps = 0
  /\ pushLog = <<>>
  /\ undoRun = 0

\* the list is mounted and reads the store; an exception thrown in the effect
\* takes the whole page down
ListMount ==
  /\ view = "start"
  /\ error' = ListMaps(storage).error
  /\ view' = IF ListMaps(storage).error = "none" THEN "list" ELSE "crashed"
  /\ Observe("list", <<>>)
  /\ UNCHANGED <<mapId, nodes, edges, selected, history, isSaving, storage,
                 uuidCount, editing, steps, pushLog, undoRun>>

\* the open button of a listed document, pressed when the store may have
\* changed since the list was read; an exception in the handler leaves the
\* list as it is
OnSelectStale(id) ==
  IF OpenRecord(storage, id).error = "none"
  THEN OnSelect(id) /\ Free
  ELSE /\ view = "list"
       /\ error' = OpenRecord(storage, id).error
       /\ Observe("open", <<>>)
       /\ UNCHANGED <<view, mapId, nodes, edges, selected, history, isSaving,
                      storage, uuidCount, editing, steps, pushLog, undoRun>>

LoadOpen == \E id \in MapIds : OnSelectStale(id)

\* the item is replaced from outside the page (another tab, the browser's
\* storage tools)
StorageEvent ==
  /\ view # "crashed"
  /\ \E st \in LoadStores : st # storage /\ storage' = st
  /\ UNCHANGED <<view, mapId, nodes, edges, selected, history, isSaving,
                 uuidCount, error, editing, lastCmd, before, pushCalls, steps,
                 pushLog, undoRun>>

LoadNext ==
  \/ ListMount
  \/ LoadOpen
  \/ StorageEvent
  \/ SelectNode
  \/ ClearSelection

LoadSpec == LoadInit /\ [][LoadNext]_vars

\* C22: reading the list and opening a document never end in an error,
\* whatever the store holds: with no usable store the list is empty, and
\* opening without a usable record gives the one-node initial document.
C22_LoadNeverFails ==
  [][/\ lastCmd' = "list"
          => /\ error' = "none"
             /\ storage.kind # "json" => ListMaps(storage).maps = NoMaps
     /\ lastCmd' = "open"
          => /\ error' = "none"
             /\ (storage.kind # "json" \/ ~HasMap(storage.maps, mapId'))
                  => (nodes' = <<RootNode>> /\ edges' = <<>>)]_vars

\* C23: an undo that directly follows a deleteNode, a colour change or an
\* updateLabel whose snapshot was accepted (lock idle) gives nodes and edges
\* the value they had just before that command.
C23_UndoRevertsLastCommand ==
  [][(/\ lastCmd' = "undo"
      /\ lastCmd \in {"deleteNode", "recolor", "updateLabel"}
      /\ error = "none"
      /\ pushCalls # <<>>
      /\ pushCalls[1].outcome = "accepted")
       => (nodes' = before.n /\ edges' = before.e)]_vars

\* C24: every edge's source and target are ids of nodes of the document.
C24_NoDanglingEdges ==
  \A i \in 1..Len(edges) :
    edges[i].source \in Ids(nodes) /\ edges[i].target \in Ids(nodes)

\* C25: the ids of the nodes of the document are pairwise distinct, and so
\* are the ids of its edges.
C25_IdsDistinct ==
  /\ \A i \in 1..Len(nodes) : \A j \in 1..Len(nodes) :
       nodes[i].id = nodes[j].id => i = j
  /\ \A i \in 1..Len(edges) : \A j \in 1..Len(edges) :
       edges[i].id = edges[j].id => i = j

\* a node was added after the node added first had been removed again
C25_Witness ==
  /\ lastCmd = "addNode"
  /\ Len(nodes) = Len(before.n) + 1
  /\ Len(nodes) >= 2
  /\ Uuid(1) \notin Ids(nodes)

\* C27: a selection, when there is one, is a node of the document.
C27_SelectionExists ==
  selected # <<>> => selected[1].id \in Ids(nodes)

\* C26: addNode with a node selected appends one node and one edge from the
\* selected node's id to the new node's id, leaves the nodes and edges that
\* were there unchanged and in place, and leaves the selection as it is.
C26_AddAppendsOne ==
  [][(lastCmd' = "addNode" /\ selected # <<>>)
       => /\ Len(nodes') = Len(nodes) + 1
          /\ SubSeq(nodes', 1, Len(nodes)) = nodes
          /\ Len(edges') = Len(edges) + 1
          /\ SubSeq(edges', 1, Len(edges)) = edges
          /\ edges'[Len(edges')].source = selected[1].id
          /\ edges'[Len(edges')].target = nodes'[Len(nodes')].id
          /\ nodes'[Len(nodes')].id \notin Ids(nodes)
          /\ selected' = selected]_vars

\* a node was added to a document that had two nodes and an edge
C26_Witness ==
  /\ lastCmd = "addNode"
  /\ selected # <<>>
  /\ Len(before.n) = 2 /\ Len(before.e) = 1
  /\ Len(nodes) = 3 /\ Len(edges) = 2
  /\ edges[2].source = selected[1].id

\* C28: right after a document is opened or created the history is the one
\* entry made of that document's nodes and edges.
C28_HistoryStartsWithDocument ==
  [][lastCmd' \in {"open", "create"}
       => history' = <<[n |-> nodes', e |-> edges']>>]_vars

\* C29: no command of the editor and no autosave (the one that follows
\* opening or creating a document included) adds, removes or changes the
\* stored record of a document other than the one being edited.
C29_OtherRecordsUntouched ==
  [][view' = "edit"
       => \A id \in MapIds \ {mapId'} :
            ParseStore(storage')[id] = ParseStore(storage)[id]]_vars

\* a node was added to one document while the store holds another one
C29_Witness ==
  /\ lastCmd = "addNode"
  /\ Len(nodes) = Len(before.n) + 1
  /\ storage.kind = "json"
  /\ \A id \in MapIds : HasMap(storage.maps, id)
  /\ storage.maps[mapId][1].nodes = nodes

\* ---------------------------------------------------------------- KeySpec
\* KeySpec: the text box of CustomNode and the window's keydown handler, at
\* most MaxKeySteps keystrokes and saves and MaxKeyNodes nodes
MaxKeySteps == 3

MaxKeyNodes == 3

\* onDoubleClick={() => setIsEditing(true)}; the two clicks of the double
\* click reach onNodeClick first, so the node is selected as well
OnNodeDoubleClick(i) ==
  /\ view = "edit"
  /\ editing = NoEdit
  /\ selected' = <<nodes[i]>>
  /\ editing' = <<nodes[i].id>>
  /\ error' = "none"
  /\ Observe("dblclick", <<>>)
  /\ UNCHANGED <<view, mapId, nodes, edges, history, isSaving, storage, uuidCount>>

\* save = () => { onLabelChange(id, text); setIsEditing(false) }, run by
\* onBlur and by Shift+Enter
TextareaSave(label) ==
  /\ editing # NoEdit
  /\ UpdateLabel(editing[1], label)
  /\ editing' = NoEdit

\* e.target.tagName of a keystroke: the text box has the focus while it is open
TargetTag == IF editing # NoEdit THEN "TEXTAREA" ELSE "BODY"

\* the keydown listener on window; a text box whose node is removed goes
\* away with it
Down(key) ==
  /\ view = "edit"
  /\ CASE key = "Tab" -> AddNode
       [] key \in {"Delete", "Backspace"} /\ TargetTag # "INPUT" -> DeleteNode
       [] key = "Ctrl+z" -> Undo
       [] OTHER -> /\ error' = "none"
                   /\ Observe("keydown", <<>>)
                   /\ UNCHANGED <<view, mapId, nodes, edges, selected, history,
                                  isSaving, storage, uuidCount>>
  /\ editing' = IF editing # NoEdit /\ editing[1] \in Ids(nodes')
                THEN editing ELSE NoEdit

Keys == {"Tab", "Delete", "Backspace", "Ctrl+z"}

KeyDoubleClick ==
  \E i \in 1..Len(nodes) : OnNodeDoubleClick(i) /\ UNCHANGED <<steps, pushLog, undoRun>>

KeySave ==
  /\ steps < MaxKeySteps
  /\ \E l \in Labels : TextareaSave(l)
  /\ steps' = steps + 1
  /\ UNCHANGED <<pushLog, undoRun>>

KeyDown ==
  /\ steps < MaxKeySteps
  /\ \E key \in Keys : (key = "Tab" => Len(nodes) < MaxKeyNodes) /\ Down(key)
  /\ steps' = steps + 1
  /\ UNCHANGED <<pushLog, undoRun>>

KeyClick == editing = NoEdit /\ SelectNode

KeyNext ==
  \/ OpenDoc
  \/ CreateDoc
  \/ Timer
  \/ KeyClick
  \/ KeyDoubleClick
  \/ KeySave
  \/ KeyDown

KeySpec == Init /\ [][KeyNext]_vars

\* C30: while the text box of a node is open, a Delete or Backspace typed
\* into it does not run deleteNode: nodes and edges stay as they are.
C30_TypingNeverDeletes ==
  [][(editing # NoEdit /\ lastCmd' = "deleteNode")
       => (nodes' = nodes /\ edges' = edges)]_vars

====
